---- MODULE Spec2Model ----
(***************************************************************************)
(* State-machine model of FaultTreeDatasetGenerator (src/src/generator.py) *)
(* as driven by src/main.py: for each of num_graphs graphs the constructor *)
(* calls reset() and generate_subgraph().  The recursion of create_tree is *)
(* modelled with an explicit call stack; every random draw is a            *)
(* nondeterministic choice.                                                *)
(*                                                                         *)
(* Probabilities are fixed-point numbers: a stored node_probability p      *)
(* stands for the real number p / ProbDen.  data_config.txt is a sequence  *)
(* of <<key, decimal characters>> pairs; a model_<n>.json file is recorded *)
(* by its number n.  visualize_graph and print_nodes change no state and   *)
(* are left out.                                                           *)
(***************************************************************************)
EXTENDS Integers, Sequences, FiniteSets, TLC

\* ---------------------------------------------------------------- bounds
MaxChildren == 3
MaxDepth == 3
MaxGraphs == 2
\* worst-case number of deepest-level nodes of a whole run,
\* num_graphs * max_num_children ^ max_depth
MaxRunLeaves == 9
\* random.random() is drawn from the grid {0/RandRes, ..., (RandRes-1)/RandRes}
RandRes == 4
\* random.uniform(0, 1) is drawn from the grid {1/(ProbRes+1), ..., ProbRes/(ProbRes+1)}
ProbRes == 1
\* counters found in data_config.txt when the run starts (left by earlier runs)
StartModels == 2
StartNodes == 9

\* ------------------------------------------------------ program constants
TOP == 0
INTERMEDIATE == 1
LEAF == 2
NONE == 0
AND == 1
OR == 2
power == 10
\* encodes the default gate_type=None of create_node (no gate code is negative)
None == -1

VARIABLES
    max_num_children, min_children, max_depth, num_graphs,  \* self.* configuration
    graph_nodes,     \* self.graph nodes: node id -> attribute dict
    graph_edges,     \* self.graph edges: set of <<from, to>>
    graph_meta,      \* self.graph.graph: graph-level attribute dict
    node_counter,    \* self.node_counter
    model_counter,   \* self.model_counter
    data_config,     \* contents of data_config.txt, or NoFile
    model_files,     \* model numbers of the model_<n>.json files written, in order
    pc,              \* position of the constructor / generate_subgraph
    stack,           \* active create_tree calls, innermost last
    graphs_done,     \* completed iterations of the loop in __init__
    created,         \* history: node ids handed out by create_node in this run
    reads,           \* history: number of read_data_config calls
    writes,          \* history: number of write_data_config calls
    run_start        \* history: num_nodes obtained by the first reset (-1 before)

vars == <<max_num_children, min_children, max_depth, num_graphs, graph_nodes,
          graph_edges, graph_meta, node_counter, model_counter, data_config,
          model_files, pc, stack, graphs_done, created, reads, writes, run_start>>

config == <<max_num_children, min_children, max_depth, num_graphs>>
history == <<created, reads, writes, run_start>>

\* ------------------------------------------------------------- helpers
RECURSIVE Pow(_, _)
Pow(b, e) == IF e <= 0 THEN 1 ELSE b * Pow(b, e - 1)

NoFile == [exists |-> FALSE, content |-> <<>>]
File(content) == [exists |-> TRUE, content |-> content]
EmptyDict == [k \in {} |-> 0]

Digits == <<"0", "1", "2", "3", "4", "5", "6", "7", "8", "9">>
DigitVal(c) == (CHOOSE i \in DOMAIN Digits : Digits[i] = c) - 1

\* str(int): decimal characters, most significant first, "-" for negatives
RECURSIVE str(_)
str(n) ==
    IF n < 0 THEN <<"-">> \o str(-n)
    ELSE IF n < 10 THEN <<Digits[n + 1]>>
    ELSE Append(str(n \div 10), Digits[(n % 10) + 1])

\* int(str) for a well-formed decimal literal
RECURSIVE int(_)
int(s) ==
    IF Head(s) = "-" THEN -int(Tail(s))
    ELSE IF Len(s) = 1 THEN DigitVal(s[1])
    ELSE 10 * int(SubSeq(s, 1, Len(s) - 1)) + DigitVal(s[Len(s)])

\* the text write_data_config puts in data_config.txt: key=value pairs joined by ';'
write_data_config_content(num_models, num_nodes) ==
    << <<"num_models", str(num_models)>>, <<"num_nodes", str(num_nodes)>> >>

\* write_data_config: data['num_models'] = self.model_counter + 1
written_num_models(mcounter) == mcounter + 1

\* variant of written_num_nodes: the node count advanced like the model count
written_num_nodes_plus_one(ncounter) == ncounter + 1

\* write_data_config: data['num_nodes'] = self.node_counter
written_num_nodes(ncounter) == ncounter

\* the literal text written when data_config.txt does not exist
default_content == << <<"num_models", <<"0">> >>, <<"num_nodes", <<"0">> >> >>

\* read_data_config: the dictionary parsed from the file, defaults if it is absent
read_data_config(file) ==
    IF ~file.exists
    THEN [num_models |-> 0, num_nodes |-> 0]
    ELSE LET pairs == file.content IN
         [k \in {pairs[i][1] : i \in DOMAIN pairs} |->
            LET last == CHOOSE i \in DOMAIN pairs :
                            /\ pairs[i][1] = k
                            /\ \A j \in DOMAIN pairs : pairs[j][1] = k => j <= i
            IN int(pairs[last][2])]

\* read_data_config's effect on the file: a missing file is created with defaults
file_after_read(file) ==
    IF ~file.exists THEN File(default_content) ELSE file

\* ------------------------------------------------------------ random draws
\* random.choice([1, 2])
random_gate == {AND, OR}

\* biased_random_low_number: uniform(0, 1) ** power, in units of 1 / ProbDen
ProbDen == Pow(ProbRes + 1, power)
biased_random_low_number == {Pow(k, power) : k \in 1..ProbRes}

\* the default node_probability=-1 of create_node, in units of 1 / ProbDen
no_probability == (-1) * ProbDen

\* random.randint(min_children, max_num_children); empty when the range is empty
randint(lo, hi) == lo..hi

\* variant of stop_recursion: strict comparison
stop_recursion_strict(current_depth, maxd) == current_depth > maxd

\* variant of stop_recursion: stops one level early
stop_recursion_early(current_depth, maxd) == current_depth >= maxd - 1

\* first statement of create_tree: if current_depth >= self.max_depth: return
stop_recursion(current_depth, maxd) == current_depth >= maxd

\* variant of is_intermediate: the leaf is forced one level too late
is_intermediate_late(current_depth, maxd) ==
    IF current_depth = maxd
    THEN {FALSE}
    ELSE {k * maxd < RandRes * (maxd - current_depth) : k \in 0..(RandRes - 1)}

\* the outcomes of is_intermediate for a child made by a call at current_depth:
\* forced False on the last level, else random.random() < 1 - current_depth/max_depth
is_intermediate(current_depth, maxd) ==
    IF current_depth = maxd - 1
    THEN {FALSE}
    ELSE {k * maxd < RandRes * (maxd - current_depth) : k \in 0..(RandRes - 1)}

\* ------------------------------------------------------------ node factory
\* gate selection of create_node
select_gate(node_type, gate_type) ==
    IF gate_type = None
    THEN IF node_type = LEAF THEN {NONE} ELSE random_gate
    ELSE {gate_type}

\* probability assignment of create_node
select_probability(node_type, node_probability) ==
    IF node_type = LEAF THEN biased_random_low_number ELSE {node_probability}

\* node_id = self.node_counter + 1
new_node_id(counter) == counter + 1

\* the gate_type argument create_tree passes to create_node for a child
child_gate_argument(current_depth) == current_depth + 1

\* variant of create_edge: the edge points from the parent to the child
create_edge_reversed(child_node_id, parent_node_id) == <<parent_node_id, child_node_id>>

\* create_edge(child, parent): graph.add_edge(child_node_id, parent_node_id)
create_edge(child_node_id, parent_node_id) == <<child_node_id, parent_node_id>>

Attrs(node_type, gate_type, node_probability) ==
    [node_type |-> node_type, gate_type |-> gate_type,
     node_probability |-> node_probability]

\* ------------------------------------------------------------ graph queries
in_degree(edges, n) == Cardinality({e \in edges : e[2] = n})
out_degree(edges, n) == Cardinality({e \in edges : e[1] = n})

\* count_nodes_and_gates: tallies by node_type and by gate_type, three buckets each
count_nodes_and_gates(nodes) ==
    [node_counts |-> [t \in {0, 1, 2} |->
                        Cardinality({n \in DOMAIN nodes : nodes[n].node_type = t})],
     gate_counts |-> [t \in {0, 1, 2} |->
                        Cardinality({n \in DOMAIN nodes : nodes[n].gate_type = t})]]

\* the value stored as graph.graph['num_nodes']
meta_num_nodes(counter, nodes) == counter

\* the dictionary add_meta_data stores in graph.graph
meta_data(mcounter, ncounter, nodes) ==
    LET c == count_nodes_and_gates(nodes) IN
    [model_id |-> mcounter + 1,
     creation_date |-> "today",
     num_nodes |-> meta_num_nodes(ncounter, nodes),
     num_top_nodes |-> c.node_counts[0],
     num_intermediate_nodes |-> c.node_counts[1],
     num_leaf_nodes |-> c.node_counts[2],
     num_and_gates |-> c.gate_counts[1],
     num_or_gates |-> c.gate_counts[2]]

\* calculate_in_and_out_degrees: every node gets in_degree and out_degree
with_degrees(nodes, edges) ==
    [n \in DOMAIN nodes |->
        [node_type |-> nodes[n].node_type,
         gate_type |-> nodes[n].gate_type,
         node_probability |-> nodes[n].node_probability,
         in_degree |-> in_degree(edges, n),
         out_degree |-> out_degree(edges, n)]]

\* ------------------------------------------------------------ initial states
\* worst-case width of the deepest level of a tree under a configuration
WorstLeaves(maxc, maxd) == IF maxd <= 0 \/ maxc <= 0 THEN 1 ELSE Pow(maxc, maxd)

Configs ==
    {c \in [max_num_children : 0..MaxChildren, min_children : 0..MaxChildren,
            max_depth : (-1)..MaxDepth, num_graphs : 1..MaxGraphs] :
        c.num_graphs * WorstLeaves(c.max_num_children, c.max_depth) <= MaxRunLeaves}

StartFiles == {NoFile, File(write_data_config_content(StartModels, StartNodes))}

Frame(parent_node_id, current_depth) ==
    [parent_node_id |-> parent_node_id, current_depth |-> current_depth,
     at |-> "entry", remaining |-> 0]

Init ==
    /\ \E c \in Configs :
        /\ max_num_children = c.max_num_children
        /\ min_children = c.min_children
        /\ max_depth = c.max_depth
        /\ num_graphs = c.num_graphs
    /\ data_config \in StartFiles
    /\ graph_nodes = EmptyDict
    /\ graph_edges = {}
    /\ graph_meta = EmptyDict
    /\ node_counter = 0
    /\ model_counter = 0
    /\ model_files = <<>>
    /\ pc = "reset"
    /\ stack = <<>>
    /\ graphs_done = 0
    /\ created = <<>>
    /\ reads = 0
    /\ writes = 0
    /\ run_start = -1

\* ------------------------------------------------------------ actions
\* variant of reset: the counters are read from the file for the first graph only
\* and kept in memory afterwards
reset_read_once ==
    /\ pc = "reset"
    /\ IF reads = 0
       THEN LET data == read_data_config(data_config) IN
            /\ node_counter' = data.num_nodes
            /\ model_counter' = data.num_models
            /\ run_start' = data.num_nodes
            /\ data_config' = file_after_read(data_config)
            /\ reads' = reads + 1
       ELSE /\ model_counter' = model_counter + 1
            /\ UNCHANGED <<node_counter, run_start, data_config, reads>>
    /\ graph_nodes' = EmptyDict
    /\ graph_edges' = {}
    /\ graph_meta' = EmptyDict
    /\ pc' = "generate_subgraph"
    /\ UNCHANGED <<config, model_files, stack, graphs_done, created, writes>>

\* __init__ loop body, first half: reset() with its read_data_config()
reset ==
    /\ pc = "reset"
    /\ LET data == read_data_config(data_config) IN
        /\ node_counter' = data.num_nodes
        /\ model_counter' = data.num_models
        /\ run_start' = IF reads = 0 THEN data.num_nodes ELSE run_start
    /\ data_config' = file_after_read(data_config)
    /\ graph_nodes' = EmptyDict
    /\ graph_edges' = {}
    /\ graph_meta' = EmptyDict
    /\ reads' = reads + 1
    /\ pc' = "generate_subgraph"
    /\ UNCHANGED <<config, model_files, stack, graphs_done, created, writes>>

\* generate_subgraph, first two statements: create_node(0), then call create_tree
create_top ==
    /\ pc = "generate_subgraph"
    /\ LET node_id == new_node_id(node_counter) IN
       \E g \in select_gate(TOP, None) :
       \E p \in select_probability(TOP, no_probability) :
        /\ graph_nodes' = (node_id :> Attrs(TOP, g, p)) @@ graph_nodes
        /\ node_counter' = node_counter + 1
        /\ created' = Append(created, node_id)
        /\ stack' = <<Frame(node_id, 0)>>
    /\ pc' = "create_tree"
    /\ UNCHANGED <<config, graph_edges, graph_meta, model_counter, data_config,
                   model_files, graphs_done, reads, writes, run_start>>

TopFrame == stack[Len(stack)]
Pop == SubSeq(stack, 1, Len(stack) - 1)

\* the pc to continue at when the outermost create_tree call has returned
after_return == IF Len(stack) = 1 THEN "add_meta_data" ELSE "create_tree"

\* create_tree: the depth check returns at once
create_tree_stop ==
    /\ pc = "create_tree"
    /\ TopFrame.at = "entry"
    /\ stop_recursion(TopFrame.current_depth, max_depth)
    /\ stack' = Pop
    /\ pc' = after_return
    /\ UNCHANGED <<config, graph_nodes, graph_edges, graph_meta, node_counter,
                   model_counter, data_config, model_files, graphs_done, history>>

\* create_tree: num_children = random.randint(min_children, max_num_children)
create_tree_draw ==
    /\ pc = "create_tree"
    /\ TopFrame.at = "entry"
    /\ ~stop_recursion(TopFrame.current_depth, max_depth)
    /\ \E num_children \in randint(min_children, max_num_children) :
        stack' = [stack EXCEPT ![Len(stack)] =
                    [@ EXCEPT !.at = "loop", !.remaining = num_children]]
    /\ UNCHANGED <<config, graph_nodes, graph_edges, graph_meta, node_counter,
                   model_counter, data_config, model_files, pc, graphs_done, history>>

\* create_tree: random.randint raises ValueError on an empty range
create_tree_value_error ==
    /\ pc = "create_tree"
    /\ TopFrame.at = "entry"
    /\ ~stop_recursion(TopFrame.current_depth, max_depth)
    /\ randint(min_children, max_num_children) = {}
    /\ pc' = "ValueError"
    /\ UNCHANGED <<config, graph_nodes, graph_edges, graph_meta, node_counter,
                   model_counter, data_config, model_files, stack, graphs_done,
                   history>>

\* create_tree: one iteration of the loop over the children
create_tree_child ==
    /\ pc = "create_tree"
    /\ TopFrame.at = "loop"
    /\ TopFrame.remaining > 0
    /\ LET f == TopFrame
           node_id == new_node_id(node_counter)
       IN
       \E inter \in is_intermediate(f.current_depth, max_depth) :
       LET node_type == IF inter THEN INTERMEDIATE ELSE LEAF IN
       \E g \in select_gate(node_type, child_gate_argument(f.current_depth)) :
       \E p \in select_probability(node_type, no_probability) :
        /\ graph_nodes' = (node_id :> Attrs(node_type, g, p)) @@ graph_nodes
        /\ node_counter' = node_counter + 1
        /\ created' = Append(created, node_id)
        /\ graph_edges' = graph_edges \cup {create_edge(node_id, f.parent_node_id)}
        /\ stack' =
            LET s == [stack EXCEPT ![Len(stack)] =
                        [@ EXCEPT !.remaining = @ - 1]]
            IN IF node_type = INTERMEDIATE
               THEN Append(s, Frame(node_id, f.current_depth + 1))
               ELSE s
    /\ UNCHANGED <<config, graph_meta, model_counter, data_config, model_files,
                   pc, graphs_done, reads, writes, run_start>>

\* create_tree: the loop is exhausted and the call returns
create_tree_return ==
    /\ pc = "create_tree"
    /\ TopFrame.at = "loop"
    /\ TopFrame.remaining <= 0
    /\ stack' = Pop
    /\ pc' = after_return
    /\ UNCHANGED <<config, graph_nodes, graph_edges, graph_meta, node_counter,
                   model_counter, data_config, model_files, graphs_done, history>>

\* generate_subgraph: add_meta_data()
add_meta_data ==
    /\ pc = "add_meta_data"
    /\ graph_meta' = meta_data(model_counter, node_counter, graph_nodes)
    /\ pc' = "calculate_node_features"
    /\ UNCHANGED <<config, graph_nodes, graph_edges, node_counter, model_counter,
                   data_config, model_files, stack, graphs_done, history>>

\* generate_subgraph: calculate_node_features() -> calculate_in_and_out_degrees()
calculate_node_features ==
    /\ pc = "calculate_node_features"
    /\ graph_nodes' = with_degrees(graph_nodes, graph_edges)
    /\ pc' = "save_model"
    /\ UNCHANGED <<config, graph_edges, graph_meta, node_counter, model_counter,
                   data_config, model_files, stack, graphs_done, history>>

\* generate_subgraph: save_model() with its write_data_config(), then the loop
\* of __init__ goes on to the next graph or ends
save_model ==
    /\ pc = "save_model"
    /\ data_config' = File(write_data_config_content(written_num_models(model_counter),
                                                   written_num_nodes(node_counter)))
    /\ writes' = writes + 1
    /\ model_files' = Append(model_files, model_counter + 1)
    /\ graphs_done' = graphs_done + 1
    /\ pc' = IF graphs_done + 1 < num_graphs THEN "reset" ELSE "done"
    /\ UNCHANGED <<config, graph_nodes, graph_edges, graph_meta, node_counter,
                   model_counter, stack, created, reads, run_start>>

Next ==
    \/ reset
    \/ create_top
    \/ create_tree_stop
    \/ create_tree_draw
    \/ create_tree_value_error
    \/ create_tree_child
    \/ create_tree_return
    \/ add_meta_data
    \/ calculate_node_features
    \/ save_model

Spec == Init /\ [][Next]_vars

\* the program is sequential: some step is always taken while one is enabled
FairSpec == Spec /\ WF_vars(Next)

\* ------------------------------------------------------------ vocabulary
\* the configuration satisfies the documented constraints
ValidConfig == max_depth >= 0 /\ 1 <= min_children /\ min_children <= max_num_children

Nodes == DOMAIN graph_nodes

\* create_tree has returned to generate_subgraph for the graph held in self.graph
Built ==
    \/ pc \in {"add_meta_data", "calculate_node_features", "save_model"}
    \/ pc \in {"reset", "done"} /\ graphs_done > 0

\* add_meta_data has run for the graph held in self.graph
HasMeta ==
    \/ pc \in {"calculate_node_features", "save_model"}
    \/ pc \in {"reset", "done"} /\ graphs_done > 0

\* calculate_node_features has run for the graph held in self.graph
HasFeatures ==
    \/ pc = "save_model"
    \/ pc \in {"reset", "done"} /\ graphs_done > 0

TopNodes == {n \in Nodes : graph_nodes[n].node_type = TOP}

\* number of child -> parent hops from n up to the root
RECURSIVE Depth(_)
Depth(n) ==
    IF \E e \in graph_edges : e[1] = n
    THEN 1 + Depth((CHOOSE e \in graph_edges : e[1] = n)[2])
    ELSE 0

RECURSIVE SumOver(_, _)
SumOver(S, field) ==
    IF S = {} THEN 0
    ELSE LET n == CHOOSE x \in S : TRUE
         IN graph_nodes[n][field] + SumOver(S \ {n}, field)

\* ------------------------------------------------------------ claims
\* C1: in every finished graph, for every node, node_type is LEAF iff gate_type
\* is NONE iff node_probability is a sampled value and not the sentinel -1, and
\* every TOP or INTERMEDIATE node has gate_type AND or OR.
C1_LeafIffNoGate ==
    (ValidConfig /\ Built) =>
        \A n \in Nodes :
            /\ graph_nodes[n].node_type = LEAF <=> graph_nodes[n].gate_type = NONE
            /\ graph_nodes[n].gate_type = NONE
                   <=> graph_nodes[n].node_probability # no_probability
            /\ graph_nodes[n].node_type \in {TOP, INTERMEDIATE}
                   => graph_nodes[n].gate_type \in {AND, OR}

\* C2: the node ids handed out during a run that starts with the persisted
\* node counter at N are exactly N+1, N+2, ..., N+k in creation order, with no
\* gap and no repeat, also across the graphs of the run.
C2_IdsContiguous ==
    \A i \in 1..Len(created) : created[i] = run_start + i

C2_Witness ==
    /\ graphs_done >= 1
    /\ pc = "create_tree"
    /\ run_start = StartNodes
    /\ Cardinality(Nodes) >= 2
    /\ Len(created) > Cardinality(Nodes) + 1

\* C3: under a valid configuration the finished tree has exactly one TOP node,
\* which is the first node created, has at least one node, has no node deeper
\* than max_depth, and is the TOP node alone without edges when max_depth = 0.
C3_OneTopBoundedDepth ==
    (ValidConfig /\ Built) =>
        /\ Cardinality(Nodes) >= 1
        /\ Cardinality(TopNodes) = 1
        /\ \A t \in TopNodes : \A n \in Nodes : t <= n
        /\ \A t \in TopNodes : Depth(t) = 0
        /\ \A n \in Nodes : Depth(n) <= max_depth
        /\ max_depth = 0 => (Cardinality(Nodes) = 1 /\ graph_edges = {})

C3_Witness ==
    /\ ValidConfig
    /\ Built
    /\ max_depth >= 3
    /\ max_num_children >= 2
    /\ \E n \in Nodes : Depth(n) = max_depth
    /\ \E n \in Nodes : graph_nodes[n].node_type = LEAF /\ Depth(n) < max_depth

\* C4: in every finished graph the edges form a tree directed child -> parent:
\* there are |nodes| - 1 edges, the stored out_degree is 1 for every non-root
\* node and 0 for the root, and the stored in_degrees and the stored
\* out_degrees both sum to the number of edges.
C4_TreeEdges ==
    HasFeatures =>
        /\ Cardinality(graph_edges) = Cardinality(Nodes) - 1
        /\ \A n \in Nodes :
            graph_nodes[n].out_degree = IF n \in TopNodes THEN 0 ELSE 1
        /\ SumOver(Nodes, "in_degree") = Cardinality(graph_edges)
        /\ SumOver(Nodes, "out_degree") = Cardinality(graph_edges)

C4_Witness ==
    /\ HasFeatures
    /\ Cardinality(graph_edges) >= 4
    /\ \E n \in Nodes : graph_nodes[n].node_type = INTERMEDIATE
                            /\ graph_nodes[n].in_degree >= 2

\* C5: after add_meta_data, whatever the starting value of the persisted node
\* counter, num_intermediate_nodes + num_leaf_nodes + 1 = num_nodes, num_nodes
\* is the number of nodes of the graph and num_top_nodes is 1.
C5_NumNodesIsGraphSize ==
    (ValidConfig /\ HasMeta) =>
        /\ graph_meta.num_intermediate_nodes + graph_meta.num_leaf_nodes + 1
               = graph_meta.num_nodes
        /\ graph_meta.num_nodes = Cardinality(Nodes)
        /\ graph_meta.num_top_nodes = 1

\* C6: after add_meta_data, num_and_gates + num_or_gates =
\* num_intermediate_nodes + 1, and the NONE bucket of the gate counts of
\* count_nodes_and_gates equals num_leaf_nodes.
C6_GateCounts ==
    (ValidConfig /\ HasMeta) =>
        /\ graph_meta.num_and_gates + graph_meta.num_or_gates
               = graph_meta.num_intermediate_nodes + 1
        /\ count_nodes_and_gates(graph_nodes).gate_counts[NONE]
               = graph_meta.num_leaf_nodes

\* C7: with a malformed configuration the run is stopped before any node is
\* created and before any counter or file is written, and no graph is produced.
C7_ConfigErrorBeforeGeneration ==
    ~ValidConfig =>
        /\ created = <<>>
        /\ Nodes = {}
        /\ data_config \in StartFiles
        /\ writes = 0
        /\ model_files = <<>>
        /\ pc # "done"

\* C8 as stated: in a finished run the counters were read from data_config.txt
\* exactly once for the whole run and written back once per generated graph.
C8_ReadOncePerRun ==
    pc = "done" => (reads = 1 /\ writes = num_graphs)

\* C8 as amended: the counters are read exactly once per generated graph, at
\* that graph's reset, and written back exactly once per generated graph, each
\* write happening after that graph's metadata and degree features were computed.
C8_ReadAndWritePerGraph ==
    /\ [](/\ writes = graphs_done
          /\ reads = graphs_done + (IF pc \in {"reset", "done"} THEN 0 ELSE 1)
          /\ pc = "done" => (reads = num_graphs /\ writes = num_graphs))
    /\ [][writes' # writes =>
            /\ writes' = writes + 1
            /\ graph_meta # EmptyDict
            /\ graph_meta.model_id = model_counter + 1
            /\ \A n \in Nodes : graph_nodes[n].in_degree = in_degree(graph_edges, n)
                             /\ graph_nodes[n].out_degree = out_degree(graph_edges, n)
            /\ UNCHANGED <<graph_nodes, graph_edges, graph_meta>>]_vars

C8_Witness ==
    /\ pc = "done"
    /\ num_graphs = 2
    /\ reads = 2
    /\ writes = 2
    /\ Cardinality(Nodes) >= 3

\* C9: under a valid configuration with max_depth >= 1, the TOP node and every
\* INTERMEDIATE node of the finished tree have between min_children and
\* max_num_children children, so none is childless.
C9_FanOutInRange ==
    (ValidConfig /\ max_depth >= 1 /\ Built) =>
        \A n \in Nodes :
            graph_nodes[n].node_type \in {TOP, INTERMEDIATE} =>
                /\ in_degree(graph_edges, n) >= min_children
                /\ in_degree(graph_edges, n) <= max_num_children
                /\ in_degree(graph_edges, n) >= 1

C9_Witness ==
    /\ ValidConfig
    /\ Built
    /\ min_children < max_num_children
    /\ \E n, m \in Nodes :
        /\ graph_nodes[n].node_type = INTERMEDIATE
        /\ graph_nodes[m].node_type = INTERMEDIATE
        /\ in_degree(graph_edges, n) = min_children
        /\ in_degree(graph_edges, m) = max_num_children

\* what C10 says about every state of the recursion
C10_Bounded ==
    ValidConfig =>
        /\ Len(stack) <= max_depth + 1
        /\ \A i \in DOMAIN stack :
            /\ stack[i].current_depth = i - 1
            /\ stack[i].current_depth <= max_depth
            /\ graph_nodes[stack[i].parent_node_id].node_type # LEAF
            /\ Depth(stack[i].parent_node_id) = stack[i].current_depth
        /\ \A n \in Nodes :
            /\ Depth(n) >= max_depth => in_degree(graph_edges, n) = 0
            /\ Depth(n) = max_depth => graph_nodes[n].node_type # INTERMEDIATE
            /\ graph_nodes[n].node_type = LEAF => in_degree(graph_edges, n) = 0

\* C10: under a valid configuration create_tree called on the TOP node
\* eventually returns; calls at max_depth create no children, children made on
\* the last level are LEAF, LEAF nodes never recurse, and no INTERMEDIATE node
\* sits at depth max_depth.
C10_TreeTerminates ==
    /\ []C10_Bounded
    /\ (ValidConfig /\ pc = "create_tree") ~> (pc = "add_meta_data")

C10_Witness ==
    /\ ValidConfig
    /\ pc = "add_meta_data"
    /\ max_depth >= 3
    /\ \E n \in Nodes : Depth(n) = max_depth
    /\ \E n \in Nodes : graph_nodes[n].node_type = INTERMEDIATE /\ Depth(n) = max_depth - 1

====
